---------------------------- MODULE Spec2Model ----------------------------
(***************************************************************************)
(* The in-memory row store of db.c: the fixed row layout, the byte codec   *)
(* (serialize_row / deserialize_row), the lazily allocated page table      *)
(* (row_slot, new_table, free_table), the statement layer                  *)
(* (prepare_statement, execute_insert, execute_select) and the command     *)
(* loop of main.                                                           *)
(*                                                                         *)
(* Memory is modelled byte by byte.  A C object (a Row, a page) is a       *)
(* sequence of byte values 0..255; the byte at C offset k is element k+1.  *)
(* memcpy and strcpy are splices of such sequences, so a wrong offset or a *)
(* wrong width corrupts neighbouring bytes in the model as it does in C.   *)
(***************************************************************************)
EXTENDS Integers, Sequences, FiniteSets, TLC

-----------------------------------------------------------------------------
(* Layout constants, db.c:40-87 *)

COLUMN_USERNAME_SIZE == 32
COLUMN_EMAIL_SIZE == 255

\* sizeof(uint32_t)
ID_SIZE == 4
\* sizeof(char[COLUMN_USERNAME_SIZE + 1]); without the byte for the
\* terminator it would be COLUMN_USERNAME_SIZE.
USERNAME_SIZE_without_terminator == COLUMN_USERNAME_SIZE

USERNAME_SIZE == COLUMN_USERNAME_SIZE + 1
\* sizeof(char[COLUMN_EMAIL_SIZE + 1])
EMAIL_SIZE == COLUMN_EMAIL_SIZE + 1
ID_OFFSET == 0
USERNAME_OFFSET == ID_OFFSET + ID_SIZE
\* (The email placed on the username's terminator byte.)
EMAIL_OFFSET_overlapping == USERNAME_OFFSET + COLUMN_USERNAME_SIZE

EMAIL_OFFSET == USERNAME_OFFSET + USERNAME_SIZE
ROW_SIZE == ID_SIZE + USERNAME_SIZE + EMAIL_SIZE

PAGE_SIZE == 4096
TABLE_MAX_PAGES == 100
\* (The rows of a page counted with the division rounded up.)
ROWS_PER_PAGE_rounded_up == (PAGE_SIZE + ROW_SIZE - 1) \div ROW_SIZE

ROWS_PER_PAGE == PAGE_SIZE \div ROW_SIZE
TABLE_MAX_ROWS == ROWS_PER_PAGE * TABLE_MAX_PAGES

\* The members of struct Row in declaration order: id at 0, username right
\* after it, email right after username (char arrays need no alignment).
ROW_ID == 0
ROW_USERNAME == ROW_ID + ID_SIZE
ROW_EMAIL == ROW_USERNAME + (COLUMN_USERNAME_SIZE + 1)
\* The bytes of a Row that carry members (tail padding left out).
ROW_BYTES == ROW_EMAIL + (COLUMN_EMAIL_SIZE + 1)

-----------------------------------------------------------------------------
(* Bytes and C library primitives *)

NULL == <<>>

Fill(b, k) == [i \in 1..k |-> b]

\* memcpy(dest + at, src + from, n) on byte sequences.
memcpy(dest, at, src, from, n) ==
    SubSeq(dest, 1, at) \o SubSeq(src, from + 1, from + n)
                        \o SubSeq(dest, at + n + 1, Len(dest))

\* strlen(mem + at): the number of bytes before the first 0 byte; a string
\* with no terminator inside the object runs to the end of the object.
\* (The scan goes 16 bytes at a time.)
RECURSIVE strlen_from(_, _, _)
strlen_from(mem, at, n) ==
    LET end == IF at + n + 16 < Len(mem) THEN at + n + 16 ELSE Len(mem)
        zeros == {k \in (at + n + 1)..end : mem[k] = 0}
    IN IF zeros # {} THEN (CHOOSE k \in zeros : \A j \in zeros : k <= j) - at - 1
       ELSE IF end = Len(mem) THEN Len(mem) - at
       ELSE strlen_from(mem, at, n + 16)

strlen(mem, at) == strlen_from(mem, at, 0)

\* The text printf("%s", mem + at) prints.
cstring(mem, at) == SubSeq(mem, at + 1, at + strlen(mem, at))

\* strcpy(dest + at, s): the bytes of s and the terminating 0.
strcpy(dest, at, s) == memcpy(dest, at, s \o <<0>>, 0, Len(s) + 1)

\* The object representation of a uint32_t (little-endian) and its value.
uint32_bytes(v) ==
    <<v % 256, (v \div 256) % 256, (v \div 65536) % 256,
      (v \div 16777216) % 256>>

uint32_value(b) == b[1] + 256 * b[2] + 65536 * b[3] + 16777216 * b[4]

\* atoi: optional minus sign, then decimal digits up to the first other byte.
RECURSIVE digits_value(_, _, _)
digits_value(s, k, acc) ==
    IF k > Len(s) \/ s[k] < 48 \/ s[k] > 57 THEN acc
    ELSE digits_value(s, k + 1, 10 * acc + (s[k] - 48))

atoi(s) ==
    IF Len(s) > 0 /\ s[1] = 45 THEN 0 - digits_value(s, 2, 0)
    ELSE digits_value(s, 1, 0)

-----------------------------------------------------------------------------
(* Row codec, db.c:97-115 *)

\* A Row object holding id and the two texts, built over the bytes `raw`.
row_id(row) == uint32_value(SubSeq(row, ROW_ID + 1, ROW_ID + ID_SIZE))
row_username(row) == SubSeq(row, ROW_USERNAME + 1, ROW_USERNAME + COLUMN_USERNAME_SIZE + 1)
row_email(row) == SubSeq(row, ROW_EMAIL + 1, ROW_EMAIL + COLUMN_EMAIL_SIZE + 1)

\* (serialize_row copying the texts without their terminator bytes.)
serialize_row_without_terminators(source, mem, at) ==
    LET m1 == memcpy(mem, at + ID_OFFSET, source, ROW_ID, ID_SIZE)
        m2 == memcpy(m1, at + USERNAME_OFFSET, source, ROW_USERNAME,
                     COLUMN_USERNAME_SIZE)
    IN memcpy(m2, at + EMAIL_OFFSET, source, ROW_EMAIL, COLUMN_EMAIL_SIZE)

\* serialize_row(source, destination): destination is mem + at.
serialize_row(source, mem, at) ==
    LET m1 == memcpy(mem, at + ID_OFFSET, source, ROW_ID, ID_SIZE)
        m2 == memcpy(m1, at + USERNAME_OFFSET, source, ROW_USERNAME, USERNAME_SIZE)
    IN memcpy(m2, at + EMAIL_OFFSET, source, ROW_EMAIL, EMAIL_SIZE)

\* deserialize_row(source, destination): source is mem + at.
deserialize_row(mem, at, destination) ==
    LET d1 == memcpy(destination, ROW_ID, mem, at + ID_OFFSET, ID_SIZE)
        d2 == memcpy(d1, ROW_USERNAME, mem, at + USERNAME_OFFSET, USERNAME_SIZE)
    IN memcpy(d2, ROW_EMAIL, mem, at + EMAIL_OFFSET, EMAIL_SIZE)

\* print_row: "(%d, %s, %s)".
print_row(row) ==
    <<row_id(row), cstring(row, ROW_USERNAME), cstring(row, ROW_EMAIL)>>

-----------------------------------------------------------------------------
(* Table, db.c:89-159 *)

\* A byte whose value is indeterminate: malloc'ed memory, and the bytes of
\* the automatic Statement that prepare_insert does not write.  It is copied
\* like any byte; it is never 0..255, so a text or an id that depended on
\* one would show it.
INDETERMINATE == 0 - 1

\* malloc(n): n bytes of indeterminate value.
malloc(n) == Fill(INDETERMINATE, n)

\* (row_slot allocating a page on every call, whatever the slot holds.)
row_slot_always_allocating(pages_, row_num) ==
    LET page_num == row_num \div ROWS_PER_PAGE
        row_offset == row_num % ROWS_PER_PAGE
        byte_offset == row_offset * ROW_SIZE
    IN [pages |-> IF page_num \in DOMAIN pages_
                  THEN [pages_ EXCEPT ![page_num] = malloc(PAGE_SIZE)]
                  ELSE pages_,
        page_num |-> page_num,
        byte_offset |-> byte_offset]

\* (row_slot without the byte offset: every row at the start of its page.)
row_slot_first_of_page(pages_, row_num) ==
    LET page_num == row_num \div ROWS_PER_PAGE
    IN [pages |-> IF page_num \in DOMAIN pages_ /\ pages_[page_num] = NULL
                  THEN [pages_ EXCEPT ![page_num] = malloc(PAGE_SIZE)]
                  ELSE pages_,
        page_num |-> page_num,
        byte_offset |-> 0]

\* row_slot(table, row_num): the page array after the call (the page is
\* allocated when its slot holds NULL), the page and the byte offset of the
\* returned pointer.  The code does not check page_num: a page_num outside
\* the array is an access to memory that is not the table's.
row_slot(pages_, row_num) ==
    LET page_num == row_num \div ROWS_PER_PAGE
        row_offset == row_num % ROWS_PER_PAGE
        byte_offset == row_offset * ROW_SIZE
    IN [pages |-> IF page_num \in DOMAIN pages_ /\ pages_[page_num] = NULL
                  THEN [pages_ EXCEPT ![page_num] = malloc(PAGE_SIZE)]
                  ELSE pages_,
        page_num |-> page_num,
        byte_offset |-> byte_offset]

\* The slot is one of pages[0 .. TABLE_MAX_PAGES - 1].
in_bounds(slot) == slot.page_num \in 0..(TABLE_MAX_PAGES - 1)

\* The memory a slot points into (memory of indeterminate content when the
\* slot is outside the page array).
slot_memory(slot) ==
    IF in_bounds(slot) THEN slot.pages[slot.page_num] ELSE malloc(PAGE_SIZE)

\* (new_table allocating the first page at once.)
new_table_first_page_allocated ==
    [num_rows |-> 0,
     pages |-> [i \in 0..(TABLE_MAX_PAGES - 1) |->
                  IF i = 0 THEN malloc(PAGE_SIZE) ELSE NULL]]

\* new_table(): num_rows 0 and every page slot NULL.
new_table == [num_rows |-> 0, pages |-> [i \in 0..(TABLE_MAX_PAGES - 1) |-> NULL]]

\* The pointers free_table hands to free(), in order: <<"page", i>> is the
\* buffer malloc returned for pages[i].  The loop
\* "for (i = 0; table->pages[i]; i++)" has no bound on i, so with every slot
\* in use it reads pages[TABLE_MAX_PAGES], one element past the array;
\* `beyond` is the value that read yields: NULL, or some other word, which
\* is then handed to free().  free_stop is the i at which the loop stops
\* inside the array, TABLE_MAX_PAGES when it runs off its end.
free_stop(pages_) ==
    LET nulls == {i \in DOMAIN pages_ : pages_[i] = NULL}
    IN IF nulls = {} THEN TABLE_MAX_PAGES
       ELSE CHOOSE i \in nulls : \A j \in nulls : i <= j

free_table(pages_, beyond) ==
    [k \in 1..free_stop(pages_) |-> <<"page", k - 1>>]
      \o (IF free_stop(pages_) >= TABLE_MAX_PAGES /\ beyond # NULL
          THEN <<beyond>> ELSE <<>>)
      \o <<(<<"table">>)>>

\* TRUE when free_table's loop reads past the end of the page array.
free_table_overruns(pages_) == free_stop(pages_) >= TABLE_MAX_PAGES

-----------------------------------------------------------------------------
(* Statements, db.c:226-317 *)

\* "insert", "select", ".exit" and a few other words as bytes.
TXT_INSERT == <<105, 110, 115, 101, 114, 116>>
TXT_SELECT == <<115, 101, 108, 101, 99, 116>>
TXT_EXIT == <<46, 101, 120, 105, 116>>
TXT_UPDATE == <<117, 112, 100, 97, 116, 101>>
TXT_TABLES == <<46, 116, 97, 98, 108, 101, 115>>

\* An input line is the sequence of its space-separated tokens (what the
\* successive strtok(.., " ") calls return); a missing token is NULL.
token(line, k) == IF k <= Len(line) THEN line[k] ELSE NULL

\* A Statement before prepare_statement has written to it.
uninitialized_row == Fill(INDETERMINATE, ROW_BYTES)

\* db.c:258-260: id, username and email stored into row_to_insert.
make_row(row, id, username, email) ==
    strcpy(strcpy(memcpy(row, ROW_ID, uint32_bytes(id), 0, ID_SIZE),
                  ROW_USERNAME, username),
           ROW_EMAIL, email)

\* (prepare_insert without the checks of the id and of the text lengths.)
prepare_insert_unchecked(line) ==
    LET id_string == token(line, 2)
        username == token(line, 3)
        email == token(line, 4)
    IN IF id_string = NULL \/ username = NULL \/ email = NULL
       THEN [result |-> "PREPARE_SYNTAX_ERROR", row |-> uninitialized_row]
       ELSE [result |-> "PREPARE_SUCCESS",
             row |-> make_row(uninitialized_row, atoi(id_string), username, email)]

\* prepare_insert: the PrepareResult and statement->row_to_insert.
prepare_insert(line) ==
    LET id_string == token(line, 2)
        username == token(line, 3)
        email == token(line, 4)
        id == atoi(id_string)
    IN IF id_string = NULL \/ username = NULL \/ email = NULL
       THEN [result |-> "PREPARE_SYNTAX_ERROR", row |-> uninitialized_row]
       ELSE IF id < 0
       THEN [result |-> "PREPARE_NEGATIVE_ID", row |-> uninitialized_row]
       ELSE IF Len(username) > COLUMN_USERNAME_SIZE
       THEN [result |-> "PREPARE_STRING_TOO_LONG", row |-> uninitialized_row]
       ELSE IF Len(email) > COLUMN_EMAIL_SIZE
       THEN [result |-> "PREPARE_STRING_TOO_LONG", row |-> uninitialized_row]
       ELSE [result |-> "PREPARE_SUCCESS",
             row |-> make_row(uninitialized_row, id, username, email)]

\* prepare_statement: strncmp(buffer, "insert", 6) looks at the first six
\* bytes only; strcmp(buffer, "select") wants the whole line.
prepare_statement(line) ==
    IF Len(token(line, 1)) >= 6 /\ SubSeq(token(line, 1), 1, 6) = TXT_INSERT
    THEN [type |-> "STATEMENT_INSERT"] @@ prepare_insert(line)
    ELSE IF line = <<TXT_SELECT>>
    THEN [type |-> "STATEMENT_SELECT", result |-> "PREPARE_SUCCESS",
          row |-> uninitialized_row]
    ELSE [type |-> "NONE", result |-> "PREPARE_UNRECOGNIZED_STATEMENT",
          row |-> uninitialized_row]

\* (The row written after num_rows has been incremented: into the slot of
\* row num_rows + 1.)
write_row_after_count(table, row) ==
    LET slot == row_slot(table.pages, table.num_rows + 1)
    IN IF in_bounds(slot)
       THEN [slot.pages EXCEPT ![slot.page_num] =
                serialize_row(row, slot_memory(slot), slot.byte_offset)]
       ELSE slot.pages

\* execute_insert up to and including serialize_row (db.c:283-289): the
\* page array after the row is written into the slot of row num_rows.
write_row(table, row) ==
    LET slot == row_slot(table.pages, table.num_rows)
    IN IF in_bounds(slot)
       THEN [slot.pages EXCEPT ![slot.page_num] =
                serialize_row(row, slot_memory(slot), slot.byte_offset)]
       ELSE slot.pages

\* "table->num_rows += 1" (db.c:291), and two ways to get it wrong.
count_row_forgotten(t) == t.num_rows

count_row_twice(t) == t.num_rows + 2

count_row(t) == t.num_rows + 1

\* execute_insert, whole: the table after a successful insert.
execute_insert(t, row) ==
    [num_rows |-> count_row(t), pages |-> write_row(t, row)]

\* The table is full (db.c:283); with > for >= one row too many gets in.
table_full_off_by_one(t) == t.num_rows > TABLE_MAX_ROWS

table_full(t) == t.num_rows >= TABLE_MAX_ROWS

\* (execute_select with the loop running to i <= num_rows.)
execute_select_one_too_far(table) ==
    LET touched == {row_slot(table.pages, i).page_num :
                        i \in 0..table.num_rows}
        after == [p \in DOMAIN table.pages |->
                    IF p \in touched /\ table.pages[p] = NULL
                    THEN malloc(PAGE_SIZE) ELSE table.pages[p]]
    IN [pages |-> after,
        touched |-> touched,
        printed |-> [k \in 1..(table.num_rows + 1) |->
                       LET slot == row_slot(after, k - 1)
                       IN print_row(deserialize_row(slot_memory(slot),
                                                    slot.byte_offset,
                                                    uninitialized_row))]]

\* execute_select: the page array after the scan (row_slot allocates a page
\* whose slot holds NULL) and the rows printed, in order.
execute_select(table) ==
    LET touched == {row_slot(table.pages, i).page_num :
                        i \in 0..(table.num_rows - 1)}
        after == [p \in DOMAIN table.pages |->
                    IF p \in touched /\ table.pages[p] = NULL
                    THEN malloc(PAGE_SIZE) ELSE table.pages[p]]
    IN [pages |-> after,
        touched |-> touched,
        printed |-> [k \in 1..table.num_rows |->
                       LET slot == row_slot(after, k - 1)
                       IN print_row(deserialize_row(slot_memory(slot),
                                                    slot.byte_offset,
                                                    uninitialized_row))]]

-----------------------------------------------------------------------------
(* Input *)

\* The number of rows, counted back from the last row of the table, whose
\* insert line is drawn from FreeLines; every earlier row k is inserted by
\* the line workload(k).
MaxFreeRows == 1

RECURSIVE decimal(_)
decimal(v) == IF v < 10 THEN <<48 + v>> ELSE decimal(v \div 10) \o <<48 + (v % 10)>>

\* "insert <k> <username> <email>": the username is 32 bytes long for k = 0
\* and one byte shorter with each k, the email is 255 bytes long for every
\* 64th k and 1..7 bytes otherwise.
workload(k) ==
    <<TXT_INSERT, decimal(k),
      Fill(97 + (k % 26), COLUMN_USERNAME_SIZE - (k % COLUMN_USERNAME_SIZE)),
      IF k % 64 = 0 THEN Fill(64 + (k % 7), COLUMN_EMAIL_SIZE)
      ELSE Fill(48 + (k % 10), 1 + (k % 7))>>

\* Insert lines at the limits of what prepare_insert accepts.
FreeLines ==
    {<<TXT_INSERT, decimal(2147483647), Fill(85, COLUMN_USERNAME_SIZE),
       Fill(69, COLUMN_EMAIL_SIZE)>>,
     <<TXT_INSERT \o <<120>>, <<48>>, <<117>>, <<101>>>>}

\* The insert lines read when the table holds n rows.
InsertLines(n) ==
    IF n >= TABLE_MAX_ROWS - MaxFreeRows THEN FreeLines ELSE {workload(n)}

\* The table sizes at which lines that are not accepted are read: below
\* MaxNoisyRows rows, and in the last MaxFreeRows rows and at the full table.
MaxNoisyRows == 15

Noisy(n) == n < MaxNoisyRows \/ n >= TABLE_MAX_ROWS - MaxFreeRows

\* Lines that prepare_statement rejects: a negative id, a username of 33
\* bytes, an email of 256 bytes, a missing email, another keyword.
RejectedLines(n) ==
    IF Noisy(n)
    THEN {<<TXT_INSERT, <<45, 49>>, <<117>>, <<101>>>>,
          <<TXT_INSERT, <<49>>, Fill(85, COLUMN_USERNAME_SIZE + 1), <<101>>>>,
          <<TXT_INSERT, <<49>>, <<117>>, Fill(69, COLUMN_EMAIL_SIZE + 1)>>,
          <<TXT_INSERT, <<49>>, <<117>>>>,
          <<TXT_UPDATE>>}
    ELSE {}

\* The lines read at the prompt that do not start with '.': what becomes of
\* each is for prepare_statement to decide.
Lines(n) == InsertLines(n) \cup RejectedLines(n)

\* Lines that start with '.' and are not ".exit".
MetaLines(n) == IF Noisy(n) THEN {<<TXT_TABLES>>} ELSE {}

-----------------------------------------------------------------------------
(* The command loop, db.c:319-369 *)

VARIABLES
    pc,         \* "prompt": main is at print_prompt/read_input (db.c:324);
                \* "insert": execute_insert is between serialize_row and
                \*           the increment of num_rows (db.c:289-291);
                \* "report": the line has been handled and its outcome
                \*           printed, the loop has not yet come round;
                \* "exit":   the process has called exit()
    num_rows,   \* table->num_rows
    pages,      \* table->pages: page number -> NULL or the PAGE_SIZE bytes
    statement,  \* main's Statement: type and row_to_insert, with its line
    result,     \* the outcome of the line handled last
    out,        \* the rows print_row printed for the line handled last
    history,    \* the lines of the inserts that returned EXECUTE_SUCCESS
    released,   \* the pointers handed to free(), in order
    overrun     \* pages[i] has been accessed with i >= TABLE_MAX_PAGES

vars == <<pc, num_rows, pages, statement, result, out, history, released, overrun>>

table == [num_rows |-> num_rows, pages |-> pages]

\* The Statement of an iteration that has not prepared it.
no_statement == [type |-> "NONE", line |-> <<>>, row |-> uninitialized_row]

Init ==
    /\ pc = "prompt"
    /\ num_rows = new_table.num_rows
    /\ pages = new_table.pages
    /\ statement = no_statement
    /\ result = "NONE"
    /\ out = <<>>
    /\ history = <<>>
    /\ released = <<>>
    /\ overrun = FALSE

\* read_input fails (end of input): exit(EXIT_FAILURE), db.c:197-200.
read_fail ==
    /\ pc = "prompt"
    /\ pc' = "exit"
    /\ result' = "EXIT_FAILURE"
    /\ UNCHANGED <<num_rows, pages, statement, out, history, released, overrun>>

\* (".exit" tearing the table down and returning to the loop, as a
\* meta-command that succeeds would, instead of calling exit.)
meta_exit_returning ==
    /\ pc = "prompt"
    /\ released' = released \o <<(<<"buffer">>), (<<"input_buffer">>)>>
                            \o free_table(pages, NULL)
    /\ result' = "META_COMMAND_SUCCESS"
    /\ pc' = "report"
    /\ UNCHANGED <<num_rows, pages, statement, out, history, overrun>>

\* ".exit": close_input_buffer, free_table, exit(EXIT_SUCCESS), db.c:217-220.
\* With every page slot in use the loop of free_table reads the word after
\* the array: it holds NULL, or something else that is then freed.
meta_exit ==
    /\ pc = "prompt"
    /\ \E beyond \in (IF free_table_overruns(pages) THEN {NULL, <<"wild">>} ELSE {NULL}) :
          /\ released' = <<(<<"buffer">>), (<<"input_buffer">>)>> \o free_table(pages, beyond)
          /\ result' = IF beyond = NULL THEN "EXIT_SUCCESS" ELSE "UNDEFINED"
    /\ overrun' = (overrun \/ free_table_overruns(pages))
    /\ pc' = "exit"
    /\ UNCHANGED <<num_rows, pages, statement, out, history>>

\* Another line that starts with '.', db.c:221-223 and 335-337.
meta_unrecognized ==
    /\ pc = "prompt"
    /\ \E line \in MetaLines(num_rows) :
          /\ line[1][1] = 46 /\ line # <<TXT_EXIT>>
          /\ result' = "META_COMMAND_UNRECOGNIZED_COMMAND"
    /\ pc' = "report"
    /\ UNCHANGED <<num_rows, pages, statement, out, history, released, overrun>>

\* A line prepare_statement does not accept, db.c:345-357.
prepare_rejected ==
    /\ pc = "prompt"
    /\ \E line \in Lines(num_rows) :
          LET prepared == prepare_statement(line)
          IN /\ prepared.result # "PREPARE_SUCCESS"
             /\ result' = prepared.result
             /\ statement' = [type |-> prepared.type, line |-> line,
                              row |-> prepared.row]
    /\ pc' = "report"
    /\ UNCHANGED <<num_rows, pages, out, history, released, overrun>>

\* An accepted insert on a full table, db.c:283-285 and 364-366.
insert_full ==
    /\ pc = "prompt"
    /\ table_full(table)
    /\ \E line \in Lines(num_rows) :
          LET prepared == prepare_statement(line)
          IN /\ prepared.result = "PREPARE_SUCCESS"
             /\ prepared.type = "STATEMENT_INSERT"
             /\ statement' = [type |-> prepared.type, line |-> line,
                              row |-> prepared.row]
    /\ result' = "EXECUTE_TABLE_FULL"
    /\ pc' = "report"
    /\ UNCHANGED <<num_rows, pages, out, history, released, overrun>>

\* An accepted insert, up to the end of serialize_row, db.c:287-289.
insert_write ==
    /\ pc = "prompt"
    /\ ~table_full(table)
    /\ \E line \in Lines(num_rows) :
          LET prepared == prepare_statement(line)
          IN /\ prepared.result = "PREPARE_SUCCESS"
             /\ prepared.type = "STATEMENT_INSERT"
             /\ statement' = [type |-> prepared.type, line |-> line,
                              row |-> prepared.row]
             /\ pages' = write_row(table, prepared.row)
    /\ overrun' = (overrun \/ ~in_bounds(row_slot(pages, num_rows)))
    /\ pc' = "insert"
    /\ UNCHANGED <<num_rows, result, out, history, released>>

\* The rest of execute_insert, db.c:291-293, and "Executed.".
insert_count ==
    /\ pc = "insert"
    /\ num_rows' = count_row(table)
    /\ history' = Append(history, statement.line)
    /\ result' = "EXECUTE_SUCCESS"
    /\ pc' = "report"
    /\ UNCHANGED <<pages, statement, out, released, overrun>>

\* "select": execute_select, db.c:296-307.
select ==
    /\ pc = "prompt"
    /\ LET prepared == prepare_statement(<<TXT_SELECT>>)
           selected == execute_select(table)
       IN /\ prepared.result = "PREPARE_SUCCESS"
          /\ prepared.type = "STATEMENT_SELECT"
          /\ statement' = [type |-> prepared.type, line |-> <<TXT_SELECT>>,
                           row |-> prepared.row]
          /\ pages' = selected.pages
          /\ out' = selected.printed
    /\ overrun' = (overrun \/ execute_select(table).touched \ DOMAIN pages # {})
    /\ result' = "EXECUTE_SUCCESS"
    /\ pc' = "report"
    /\ UNCHANGED <<num_rows, history, released>>

\* The loop comes round to print_prompt; the Statement of the iteration ends.
continue ==
    /\ pc = "report"
    /\ pc' = "prompt"
    /\ statement' = no_statement
    /\ result' = "NONE"
    /\ out' = <<>>
    /\ UNCHANGED <<num_rows, pages, history, released, overrun>>

Next ==
    \/ read_fail
    \/ meta_exit
    \/ meta_unrecognized
    \/ prepare_rejected
    \/ insert_full
    \/ insert_write
    \/ insert_count
    \/ select
    \/ continue

Spec == Init /\ [][Next]_vars

-----------------------------------------------------------------------------
(* The loop with the workload already inserted *)

\* The table t after the inserts of workload(lo), .., workload(hi - 1).
RECURSIVE appended(_, _, _)
appended(t, lo, hi) ==
    IF lo >= hi THEN t
    ELSE appended(execute_insert(t, prepare_statement(workload(lo)).row),
                  lo + 1, hi)

\* Page p of the table after the first k lines of the workload: the inserts
\* of the rows of page p are the only ones that write to it.
populated_page(p, k) ==
    LET first == p * ROWS_PER_PAGE
        last == IF first + ROWS_PER_PAGE < k THEN first + ROWS_PER_PAGE ELSE k
    IN appended([num_rows |-> first, pages |-> new_table.pages],
                first, last).pages[p]

populated(k) ==
    [num_rows |-> k,
     pages |-> [p \in 0..(TABLE_MAX_PAGES - 1) |->
                  IF p * ROWS_PER_PAGE < k THEN populated_page(p, k) ELSE NULL]]

\* main at the prompt after new_table() and the first k lines of the
\* workload: the state Spec reaches by k rounds of insert_write,
\* insert_count and continue.
AtPromptAfter(k) ==
    /\ pc = "prompt"
    /\ num_rows = populated(k).num_rows
    /\ pages = populated(k).pages
    /\ statement = no_statement
    /\ result = "NONE"
    /\ out = <<>>
    /\ history = [i \in 1..k |-> workload(i - 1)]
    /\ released = <<>>
    /\ overrun = FALSE

InitPopulated == Init \/ AtPromptAfter(TABLE_MAX_ROWS - MaxFreeRows)

SpecPopulated == InitPopulated /\ [][Next]_vars

-----------------------------------------------------------------------------
(* The codec alone *)

\* The Rows the codec is tried on: ids over the range of atoi, texts of
\* every length 0 .. MaxCodecText and of the last MaxCodecText + 1 lengths
\* up to the column width, written over an uninitialized Row.
MaxCodecText == 2

CodecIds == {0, 1, 255, 256, 65536, 16777216, 2147483647}

CodecLengths(width) == (0..MaxCodecText) \cup ((width - MaxCodecText)..width)

CodecRows ==
    {make_row(uninitialized_row, id, Fill(97 + (u % 26), u), Fill(64 + (e % 7), e)) :
        id \in CodecIds,
        u \in CodecLengths(COLUMN_USERNAME_SIZE),
        e \in CodecLengths(COLUMN_EMAIL_SIZE)}
      \cup {make_row(uninitialized_row, 1, <<97, 108, 105, 99, 101>>,
                     <<97, 108, 105, 99, 101, 64, 120, 46, 99, 111, 109>>)}

\* A Row R, and a page to hold its serialized form.
InitCodec ==
    /\ pc = "codec"
    /\ num_rows = 0
    /\ pages = new_table.pages
    /\ \E R \in CodecRows :
          statement = [type |-> "STATEMENT_INSERT", line |-> <<>>, row |-> R]
    /\ result = "NONE"
    /\ out = <<>>
    /\ history = <<>>
    /\ released = <<>>
    /\ overrun = FALSE

\* serialize_row(R, slot) for a slot of page 0.
codec_serialize ==
    /\ pc = "codec"
    /\ \E row_num \in {0, ROWS_PER_PAGE - 1} :
          /\ pages' = write_row([num_rows |-> row_num, pages |-> pages], statement.row)
          /\ num_rows' = row_num
    /\ pc' = "serialized"
    /\ UNCHANGED <<statement, result, out, history, released, overrun>>

\* deserialize_row(slot, &row) into an uninitialized Row.
codec_deserialize ==
    /\ pc = "serialized"
    /\ LET slot == row_slot(pages, num_rows)
       IN out' = <<deserialize_row(slot_memory(slot), slot.byte_offset,
                                   uninitialized_row)>>
    /\ pc' = "deserialized"
    /\ UNCHANGED <<num_rows, pages, statement, result, history, released, overrun>>

NextCodec == codec_serialize \/ codec_deserialize

SpecCodec == InitCodec /\ [][NextCodec]_vars

-----------------------------------------------------------------------------
(* Capacity *)

\* The line handled last was an insert that execute_insert has returned from.
InsertExecuted ==
    /\ pc = "report"
    /\ statement.type = "STATEMENT_INSERT"
    /\ result \in {"EXECUTE_SUCCESS", "EXECUTE_TABLE_FULL"}

\* C1: starting from the fresh table, an insert returns EXECUTE_TABLE_FULL
\* only when TABLE_MAX_ROWS inserts have succeeded before it and never
\* succeeds then, and num_rows is the number of inserts that succeeded.
C1_Capacity ==
    /\ pc # "insert" => num_rows = Len(history)
    /\ Len(history) <= TABLE_MAX_ROWS
    /\ (InsertExecuted /\ result = "EXECUTE_TABLE_FULL")
          => Len(history) = TABLE_MAX_ROWS
    /\ (InsertExecuted /\ result = "EXECUTE_SUCCESS")
          => (num_rows = Len(history) /\ num_rows >= 1)

\* An insert has just been refused on a table that TABLE_MAX_ROWS inserts
\* filled.
C1_Witness ==
    /\ InsertExecuted
    /\ result = "EXECUTE_TABLE_FULL"
    /\ Len(history) = TABLE_MAX_ROWS

\* C2 as claimed: rows of 291 bytes, 14 to a page and 1400 to the table, the
\* 1401st insert being the refused one.
C2_AsClaimed ==
    /\ ROW_SIZE = 291
    /\ ROWS_PER_PAGE = 14
    /\ TABLE_MAX_ROWS = 1400
    /\ (InsertExecuted /\ result = "EXECUTE_TABLE_FULL") => num_rows = 1400

\* C2: the text columns are stored with their terminator byte, 33 and 256
\* bytes wide, so rows have 293 bytes, 13 to a page and 1300 to the table:
\* inserts succeed up to the 1300th, and the 1301st is refused with num_rows
\* still 1300.
C2_Layout ==
    /\ USERNAME_SIZE = 33 /\ EMAIL_SIZE = 256 /\ ID_SIZE = 4
    /\ ROW_SIZE = 293
    /\ ROWS_PER_PAGE = 14 - 1
    /\ TABLE_MAX_ROWS = 1300
    /\ num_rows <= 1300
    /\ (InsertExecuted /\ result = "EXECUTE_TABLE_FULL") => num_rows = 1300
    /\ (pc = "prompt" /\ num_rows < 1300) => ENABLED insert_write

\* The 1301st insert has been refused.
C2_Witness ==
    /\ InsertExecuted
    /\ result = "EXECUTE_TABLE_FULL"
    /\ num_rows = 1300
    /\ Len(history) = 1300

-----------------------------------------------------------------------------
(* Scanning *)

\* The record an accepted insert line asks for: what print_row shows of it.
record(line) == <<atoi(line[2]), line[3], line[4]>>

\* The records of the inserts that succeeded, in the order of the inserts.
inserted == [i \in 1..Len(history) |-> record(history[i])]

\* The line handled last was a select.
SelectExecuted ==
    /\ pc = "report"
    /\ statement.type = "STATEMENT_SELECT"

\* C3: after the inserts of r0 .. rk into the fresh table a select prints
\* num_rows rows, which are r0 .. rk in that order, and a second select
\* right after it would print the same rows.
C3_InsertionOrder ==
    SelectExecuted =>
        /\ Len(out) = num_rows
        /\ out = inserted
        /\ execute_select(table).printed = out

\* A select has printed rows from two pages.
C3_Witness ==
    /\ SelectExecuted
    /\ Len(out) = ROWS_PER_PAGE + 1
    /\ out[1] = record(workload(0))

-----------------------------------------------------------------------------
(* The full table *)

\* C4: an accepted insert read with num_rows = TABLE_MAX_ROWS returns
\* EXECUTE_TABLE_FULL and leaves num_rows and every page, allocated or not,
\* as they were.
C4_TableFull ==
    [][(/\ pc = "prompt"
        /\ num_rows = TABLE_MAX_ROWS
        /\ statement'.type = "STATEMENT_INSERT"
        /\ prepare_statement(statement'.line).result = "PREPARE_SUCCESS")
       => (/\ pc' = "report"
           /\ result' = "EXECUTE_TABLE_FULL"
           /\ num_rows' = num_rows
           /\ pages' = pages
           /\ history' = history)]_vars

\* An insert has been refused with every page of the table in use.
C4_Witness ==
    /\ pc = "report"
    /\ statement.type = "STATEMENT_INSERT"
    /\ result = "EXECUTE_TABLE_FULL"
    /\ \A p \in DOMAIN pages : pages[p] # NULL

-----------------------------------------------------------------------------
(* The codec *)

\* C5: a Row R whose texts fit their columns, serialized into a slot and
\* deserialized from it, comes back with the id, the username and the email
\* of R.
C5_RoundTrip ==
    pc = "deserialized" =>
        LET R == statement.row
            D == out[1]
        IN /\ row_id(D) = row_id(R)
           /\ cstring(D, ROW_USERNAME) = cstring(R, ROW_USERNAME)
           /\ cstring(D, ROW_EMAIL) = cstring(R, ROW_EMAIL)
           /\ strlen(D, ROW_USERNAME) <= COLUMN_USERNAME_SIZE
           /\ strlen(D, ROW_EMAIL) <= COLUMN_EMAIL_SIZE

\* A Row with texts of the full column widths has gone through the last
\* slot of a page.
C5_Witness ==
    /\ pc = "deserialized"
    /\ num_rows = ROWS_PER_PAGE - 1
    /\ strlen(statement.row, ROW_USERNAME) = COLUMN_USERNAME_SIZE
    /\ strlen(statement.row, ROW_EMAIL) = COLUMN_EMAIL_SIZE
    /\ row_id(statement.row) = 2147483647

-----------------------------------------------------------------------------
(* Teardown *)

\* The page slots that hold a page.
allocated == {p \in DOMAIN pages : pages[p] # NULL}

\* C6: when ".exit" has torn the table down, every allocated page has been
\* handed to free() exactly once, and nothing has been handed to free() but
\* those pages, the table and the input buffer.
C6_Teardown ==
    (pc = "exit" /\ result # "EXIT_FAILURE") =>
        /\ \A p \in allocated :
              Cardinality({k \in DOMAIN released : released[k] = <<"page", p>>}) = 1
        /\ \A k \in DOMAIN released :
              released[k] \in {<<"buffer">>, <<"input_buffer">>, <<"table">>}
                                \cup {<<"page", p>> : p \in allocated}

-----------------------------------------------------------------------------
(* Allocation *)

\* C7: the fresh table has no page; between two commands the allocated page
\* slots are 0 .. P, P the page of row num_rows - 1, and none when num_rows
\* is 0.  (Inside execute_insert, after the row is written and before it is
\* counted, they are the pages up to that of the row being inserted.)
C7_LazyAllocation ==
    /\ new_table.pages = [p \in 0..(TABLE_MAX_PAGES - 1) |-> NULL]
    /\ (pc # "insert" /\ num_rows = 0) => allocated = {}
    /\ (pc # "insert" /\ num_rows > 0)
          => allocated = 0..((num_rows - 1) \div ROWS_PER_PAGE)
    /\ pc = "insert" => allocated = 0..(num_rows \div ROWS_PER_PAGE)

\* The first row of the second page has been inserted.
C7_Witness ==
    /\ pc = "report"
    /\ num_rows = ROWS_PER_PAGE + 1
    /\ allocated = {0, 1}

-----------------------------------------------------------------------------
(* Stored rows *)

\* Row i as a select decodes it: deserialize_row from its slot, print_row.
decoded(i) ==
    LET slot == row_slot(pages, i)
    IN print_row(deserialize_row(slot_memory(slot), slot.byte_offset,
                                 uninitialized_row))

\* C8: an insert with a username of COLUMN_USERNAME_SIZE bytes is accepted,
\* and the row it stored decodes to those bytes and to the email it was
\* given.
C8_UsernameBoundary ==
    /\ \A line \in {workload(0)} \cup FreeLines :
          Len(line[3]) = COLUMN_USERNAME_SIZE
              => prepare_statement(line).result = "PREPARE_SUCCESS"
    /\ (pc = "prompt" /\ num_rows = 0) => ENABLED insert_write
    /\ \A i \in 1..Len(history) :
          (i <= num_rows /\ Len(history[i][3]) = COLUMN_USERNAME_SIZE)
              => /\ Len(decoded(i - 1)[2]) = COLUMN_USERNAME_SIZE
                 /\ decoded(i - 1)[2] = history[i][3]
                 /\ decoded(i - 1)[3] = history[i][4]

\* The insert of a 32-byte username next to a 255-byte email has succeeded.
C8_Witness ==
    /\ InsertExecuted
    /\ result = "EXECUTE_SUCCESS"
    /\ Len(statement.line[3]) = COLUMN_USERNAME_SIZE
    /\ Len(statement.line[4]) = COLUMN_EMAIL_SIZE
    /\ num_rows = 1

\* The ROW_SIZE bytes of the slot of row i (none when its page is missing).
slot_bytes(i) ==
    LET p == i \div ROWS_PER_PAGE
        at == (i % ROWS_PER_PAGE) * ROW_SIZE
    IN IF p \in DOMAIN pages /\ pages[p] # NULL
       THEN SubSeq(pages[p], at + 1, at + ROW_SIZE)
       ELSE <<>>

\* The bytes of a slot hold the record rec in full: the id, and each text
\* with its terminator.
holds(bytes, rec) ==
    /\ Len(bytes) = ROW_SIZE
    /\ SubSeq(bytes, ID_OFFSET + 1, ID_OFFSET + ID_SIZE) = uint32_bytes(rec[1])
    /\ SubSeq(bytes, USERNAME_OFFSET + 1, USERNAME_OFFSET + Len(rec[2]) + 1)
          = rec[2] \o <<0>>
    /\ SubSeq(bytes, EMAIL_OFFSET + 1, EMAIL_OFFSET + Len(rec[3]) + 1)
          = rec[3] \o <<0>>

\* C9: in every state, those inside execute_insert included, the slot of
\* every row i < num_rows holds the record of the (i+1)-th successful
\* insert; while execute_insert has not yet counted its row, the slot of
\* row num_rows already holds it.
C9_WrittenBeforeCounted ==
    /\ num_rows <= Len(history)
    /\ \A i \in 0..(num_rows - 1) : holds(slot_bytes(i), record(history[i + 1]))
    /\ pc = "insert"
          => /\ num_rows = Len(history)
             /\ holds(slot_bytes(num_rows), record(statement.line))

\* execute_insert has written the first row of the second page and not yet
\* counted it.
C9_Witness ==
    /\ pc = "insert"
    /\ num_rows = ROWS_PER_PAGE
    /\ holds(slot_bytes(num_rows), record(workload(ROWS_PER_PAGE)))

-----------------------------------------------------------------------------
(* The row count *)

\* C10: num_rows never exceeds TABLE_MAX_PAGES * ROWS_PER_PAGE, and a step
\* that changes it adds 1 to it and is the end of an insert that succeeds.
C10_Monotone ==
    /\ [](num_rows <= TABLE_MAX_PAGES * ROWS_PER_PAGE)
    /\ [][num_rows' # num_rows
             => (/\ num_rows' = num_rows + 1
                 /\ pc = "insert"
                 /\ statement.type = "STATEMENT_INSERT"
                 /\ result' = "EXECUTE_SUCCESS")]_vars

\* The insert that fills the table has succeeded.
C10_Witness ==
    /\ pc = "report"
    /\ result = "EXECUTE_SUCCESS"
    /\ num_rows = TABLE_MAX_PAGES * ROWS_PER_PAGE

-----------------------------------------------------------------------------
(* Page slots *)

\* Page p before and after a step is the same buffer: its bytes are those it
\* had, but for the ROW_SIZE bytes at `at` when the step is the write of a
\* row there.
same_buffer(before, after, written, at) ==
    \/ after = before
    \/ /\ written
       /\ Len(after) = Len(before)
       /\ SubSeq(after, 1, at) = SubSeq(before, 1, at)
       /\ SubSeq(after, at + ROW_SIZE + 1, Len(after))
             = SubSeq(before, at + ROW_SIZE + 1, Len(before))

\* C11: a page slot that holds a buffer keeps that buffer in every step: it
\* is not reset to NULL and not given a fresh buffer, and row_slot of a row
\* of that page returns the same page, the same byte offset and the same
\* buffer before and after the step.
C11_PagesStay ==
    [][\A p \in DOMAIN pages :
          pages[p] # NULL =>
              /\ pages'[p] # NULL
              /\ same_buffer(pages[p], pages'[p],
                             pc' = "insert" /\ p = num_rows \div ROWS_PER_PAGE,
                             (num_rows % ROWS_PER_PAGE) * ROW_SIZE)
              /\ \A i \in (p * ROWS_PER_PAGE)..(p * ROWS_PER_PAGE + ROWS_PER_PAGE - 1) :
                    /\ row_slot(pages', i).page_num = row_slot(pages, i).page_num
                    /\ row_slot(pages', i).byte_offset = row_slot(pages, i).byte_offset
              /\ row_slot(pages', p * ROWS_PER_PAGE).pages[p] = pages'[p]
      ]_vars

\* A second row has been written into a page that the first row allocated.
C11_Witness ==
    /\ pc = "insert"
    /\ num_rows = 1
    /\ allocated = {0}
    /\ holds(slot_bytes(0), record(workload(0)))
    /\ holds(slot_bytes(1), record(workload(1)))

-----------------------------------------------------------------------------
(* row_slot alone *)

\* A fresh table on which row_slot is about to be called.
InitSlot ==
    /\ pc = "slot"
    /\ num_rows = new_table.num_rows
    /\ pages = new_table.pages
    /\ statement = no_statement
    /\ result = "NONE"
    /\ out = <<>>
    /\ history = <<>>
    /\ released = <<>>
    /\ overrun = FALSE

\* row_slot(table, row_num) for a row_num below TABLE_MAX_ROWS: the page is
\* allocated, and `out` keeps the row_num with the page and the byte offset
\* of the pointer returned.
slot_address ==
    /\ pc = "slot"
    /\ \E row_num \in 0..(TABLE_MAX_ROWS - 1) :
          LET slot == row_slot(pages, row_num)
          IN /\ pages' = slot.pages
             /\ out' = <<[row_num |-> row_num, page_num |-> slot.page_num,
                          byte_offset |-> slot.byte_offset]>>
    /\ pc' = "addressed"
    /\ UNCHANGED <<num_rows, statement, result, history, released, overrun>>

NextSlot == slot_address

SpecSlot == InitSlot /\ [][NextSlot]_vars

\* C12: the ROW_SIZE bytes at the pointer row_slot returns for a row below
\* TABLE_MAX_ROWS lie inside one page of the table, and the bytes of any
\* other row below TABLE_MAX_ROWS are in another page or do not overlap
\* them.
C12_SlotsDisjoint ==
    pc = "addressed" =>
        LET s == out[1]
            \* the table with every page in place, so that the calls of
            \* row_slot below allocate nothing
            every == [p \in DOMAIN pages |->
                        IF pages[p] = NULL THEN <<0>> ELSE pages[p]]
        IN /\ s.page_num \in 0..(TABLE_MAX_PAGES - 1)
           /\ pages[s.page_num] # NULL
           /\ 0 <= s.byte_offset
           /\ s.byte_offset + ROW_SIZE <= PAGE_SIZE
           /\ \A j \in 0..(TABLE_MAX_ROWS - 1) :
                 j # s.row_num =>
                    LET t == row_slot(every, j)
                    IN \/ t.page_num # s.page_num
                       \/ t.byte_offset + ROW_SIZE <= s.byte_offset
                       \/ s.byte_offset + ROW_SIZE <= t.byte_offset

\* row_slot has returned the last slot of the last page.
C12_Witness ==
    /\ pc = "addressed"
    /\ out[1].row_num = TABLE_MAX_ROWS - 1
    /\ out[1].page_num = TABLE_MAX_PAGES - 1
    /\ out[1].byte_offset = (ROWS_PER_PAGE - 1) * ROW_SIZE
    /\ PAGE_SIZE - (out[1].byte_offset + ROW_SIZE) = PAGE_SIZE % ROW_SIZE

-----------------------------------------------------------------------------
(* Select is read-only *)

\* C13: the step of a select leaves num_rows, the allocation of every page
\* slot and every byte of every page as they were, although every row it
\* reads is reached through row_slot.
C13_SelectReadOnly ==
    [][(pc = "prompt" /\ statement'.type = "STATEMENT_SELECT")
          => /\ num_rows' = num_rows
             /\ {p \in DOMAIN pages' : pages'[p] # NULL} = allocated
             /\ pages' = pages
             /\ history' = history
             /\ Len(out') = num_rows
             /\ ~overrun']_vars

\* A select has scanned a table whose last row fills a page: the next page
\* is still missing.
C13_Witness ==
    /\ SelectExecuted
    /\ num_rows = ROWS_PER_PAGE
    /\ Len(out) = ROWS_PER_PAGE
    /\ allocated = {0}
    /\ pages[1] = NULL

-----------------------------------------------------------------------------
(* Lines refused before execution *)

\* A line the validation refuses: an insert with a token missing, a negative
\* id, a username of more than COLUMN_USERNAME_SIZE bytes or an email of
\* more than COLUMN_EMAIL_SIZE bytes, or a line that is neither an insert
\* nor "select".
refused(line) ==
    IF Len(line) >= 1 /\ Len(line[1]) >= 6 /\ SubSeq(line[1], 1, 6) = TXT_INSERT
    THEN \/ Len(line) < 4
         \/ atoi(line[2]) < 0
         \/ Len(line[3]) > COLUMN_USERNAME_SIZE
         \/ Len(line[4]) > COLUMN_EMAIL_SIZE
    ELSE line # <<TXT_SELECT>>

\* The results main reports for a line it does not execute.
NotExecuted ==
    {"PREPARE_NEGATIVE_ID", "PREPARE_STRING_TOO_LONG", "PREPARE_SYNTAX_ERROR",
     "PREPARE_UNRECOGNIZED_STATEMENT", "META_COMMAND_UNRECOGNIZED_COMMAND"}

\* C14: the step of a refused line, and of an unrecognized meta-command,
\* changes neither num_rows nor any page; and the row execute_insert is
\* given, like every row it stored, has an id that is not negative, a
\* username of at most 32 bytes and an email of at most 255 bytes.
C14_RefusedLines ==
    /\ []((pc = "insert" \/ InsertExecuted)
             => /\ ~refused(statement.line)
                /\ atoi(statement.line[2]) >= 0
                /\ row_id(statement.row) = atoi(statement.line[2])
                /\ strlen(statement.row, ROW_USERNAME) <= COLUMN_USERNAME_SIZE
                /\ strlen(statement.row, ROW_EMAIL) <= COLUMN_EMAIL_SIZE
                /\ Len(statement.row) = ROW_BYTES)
    /\ [](\A i \in 1..Len(history) : ~refused(history[i]))
    /\ [][(pc = "prompt" /\ pc' = "report"
             /\ (refused(statement'.line) \/ result' \in NotExecuted))
          => /\ result' \in NotExecuted
             /\ refused(statement'.line)
             /\ num_rows' = num_rows
             /\ pages' = pages
             /\ history' = history]_vars

\* An insert with an email of 256 bytes has been refused on a table that
\* holds two rows.
C14_Witness ==
    /\ pc = "report"
    /\ result = "PREPARE_STRING_TOO_LONG"
    /\ Len(statement.line) = 4
    /\ Len(statement.line[4]) = COLUMN_EMAIL_SIZE + 1
    /\ num_rows = 2
    /\ allocated = {0}

-----------------------------------------------------------------------------
(* The bounds of the page array *)

\* C15: no step reads or writes pages[i] with i >= TABLE_MAX_PAGES: row_slot
\* is called for rows below TABLE_MAX_ROWS only, by execute_insert and by
\* execute_select, and the loop of free_table stays inside the array.
C15_InBounds ==
    /\ ~overrun
    /\ pc = "insert" => in_bounds(row_slot(pages, num_rows))
    /\ SelectExecuted => \A i \in 0..(num_rows - 1) : in_bounds(row_slot(pages, i))
    /\ (pc = "exit" /\ result # "EXIT_FAILURE") => ~free_table_overruns(pages)

-----------------------------------------------------------------------------
(* Teardown and termination *)

\* The number of times the table itself has been handed to free().
table_frees == Cardinality({k \in DOMAIN released : released[k] = <<"table">>})

\* C16: free_table runs at most once, in the step of ".exit" and in no other
\* step, and that step ends the process: once anything has been freed the
\* process has exited, and from there no step is taken at all, so no insert,
\* select or row_slot follows the teardown.
C16_TeardownOnce ==
    /\ [](/\ table_frees <= 1
          /\ released # <<>> => (pc = "exit" /\ table_frees = 1))
    /\ [][/\ pc # "exit"
          /\ released' # released
                => (/\ released = <<>>
                    /\ pc = "prompt"
                    /\ pc' = "exit"
                    /\ result' # "EXIT_FAILURE"
                    /\ UNCHANGED <<num_rows, pages, history>>)]_vars

\* ".exit" has torn down a table of two rows.
C16_Witness ==
    /\ pc = "exit"
    /\ result = "EXIT_SUCCESS"
    /\ table_frees = 1
    /\ num_rows = 2
    /\ released = <<(<<"buffer">>), (<<"input_buffer">>), (<<"page", 0>>), (<<"table">>)>>

\* C17: whenever the process has exited, by ".exit" or because read_input
\* failed, the table has been torn down before: every allocated page and the
\* table itself have been handed to free().
C17_TornDownAtExit ==
    pc = "exit" =>
        /\ table_frees = 1
        /\ \A p \in allocated :
              \E k \in DOMAIN released : released[k] = <<"page", p>>

=============================================================================
